---- MODULE Spec2Model ----
(***************************************************************************)
(* Model of whisper-diary's transcript merger:                             *)
(*   app/utils/transcriptMerger.ts  (timecodeToMs, msToTimecode,           *)
(*                                   findSpeakerAtTime, generateMarkdown,  *)
(*                                   mergeTranscripts)                     *)
(*   app/routes/_index.tsx          (action)                               *)
(*                                                                         *)
(* Strings that the code takes apart or builds (timecodes, the markdown    *)
(* and csv outputs) are sequences of tokens: a timecode is a sequence of   *)
(* one-character strings, an output is a sequence of the pieces the        *)
(* template literals concatenate.  Speaker names and segment texts are     *)
(* opaque tokens.  A JavaScript number is a record [nan, val]: NaN is what *)
(* Number() and arithmetic on undefined produce.                           *)
(***************************************************************************)
EXTENDS Integers, Sequences, FiniteSets, TLC

VARIABLES
    \* timecode conversions (timecodeToMs, msToTimecode)
    tcPc, tcFields, tcIn, tcMs, tcOut,
    \* the reverse conversions (msToTimecode, then timecodeToMs)
    encPc, encMs, encDelta, encTimecode, encLater, encBack,
    \* findSpeakerAtTime: the for-of loop over premiereSegments
    fsPc, fsTimeMs2, fsMarkers, fsIndex, fsResult,
    \* generateMarkdown: the forEach loop and its three locals
    mdPc, segments, includeTimestamps, index, markdown, currentSpeaker,
    currentSegments,
    \* action: one request through the route handler
    pc, whisperFile, premiereFile, merged, response

tcVars == <<tcPc, tcFields, tcIn, tcMs, tcOut>>
encVars == <<encPc, encMs, encDelta, encTimecode, encLater, encBack>>
fsVars == <<fsPc, fsTimeMs2, fsMarkers, fsIndex, fsResult>>
mdVars == <<mdPc, segments, includeTimestamps, index, markdown, currentSpeaker,
            currentSegments>>
reqVars == <<pc, whisperFile, premiereFile, merged, response>>
vars == <<tcVars, fsVars, mdVars, reqVars, encVars>>

----------------------------------------------------------------------------
(* Bounds of the model *)

MaxHours == 1
MaxFrames == 31
MaxSegments == 3
MaxMarkers == 2
MaxWhisperRows == 2
MaxPremiereRows == 2

----------------------------------------------------------------------------
(* Sequences *)

RECURSIVE SeqsUpTo(_, _)
SeqsUpTo(S, n) ==
    IF n = 0 THEN {<<>>}
    ELSE LET shorter == SeqsUpTo(S, n - 1)
         IN  shorter \cup {Append(s, x) : s \in {t \in shorter : Len(t) = n - 1}, x \in S}

----------------------------------------------------------------------------
(* JavaScript numbers and strings *)

JsNum(v) == [nan |-> FALSE, val |-> v]
NaN == [nan |-> TRUE, val |-> 0]

Digits == <<"0", "1", "2", "3", "4", "5", "6", "7", "8", "9">>
IsDigit(c) == \E d \in 1..10 : Digits[d] = c
DigitVal(c) == (CHOOSE d \in 1..10 : Digits[d] = c) - 1

\* Number.prototype.toString for a non-negative integer
RECURSIVE toString(_)
toString(n) ==
    IF n < 10 THEN <<Digits[n + 1]>>
    ELSE Append(toString(n \div 10), Digits[(n % 10) + 1])

\* String.prototype.padStart(2, '0')
PadStart2(str) == IF Len(str) < 2 THEN <<"0">> \o str ELSE str

RECURSIVE DecimalValue(_)
DecimalValue(str) ==
    IF str = <<>> THEN 0
    ELSE 10 * DecimalValue(SubSeq(str, 1, Len(str) - 1)) + DigitVal(str[Len(str)])

\* Number(str): the empty string is 0, a digit string its value, anything else NaN
Number(str) ==
    IF \A i \in 1..Len(str) : IsDigit(str[i]) THEN JsNum(DecimalValue(str)) ELSE NaN

\* String.prototype.split(sep) for a one-character separator
RECURSIVE Split(_, _)
Split(str, sep) ==
    IF \A i \in 1..Len(str) : str[i] # sep THEN <<str>>
    ELSE LET k == CHOOSE i \in 1..Len(str) :
                      str[i] = sep /\ \A j \in 1..(i - 1) : str[j] # sep
         IN  <<SubSeq(str, 1, k - 1)>> \o Split(SubSeq(str, k + 1, Len(str)), sep)

----------------------------------------------------------------------------
(* timecodeToMs, msToTimecode *)

\* element i of timecode.split(';').map(Number); a missing element is undefined,
\* which the arithmetic turns into NaN
Component(parts, i) == IF i <= Len(parts) THEN Number(parts[i]) ELSE NaN

\* timecodeToMs splitting on ':' instead of ';'
timecodeToMsColon(timecode) ==
    LET parts == Split(timecode, ":")
        hours == Component(parts, 1)
        minutes == Component(parts, 2)
        seconds == Component(parts, 3)
        frames == Component(parts, 4)
    IN  IF hours.nan \/ minutes.nan \/ seconds.nan \/ frames.nan THEN NaN
        ELSE JsNum((hours.val * 3600000) + (minutes.val * 60000) + (seconds.val * 1000)
                   + ((frames.val * 1000) \div 30))

\* timecodeToMs with the frames clamped to the last frame of a second
timecodeToMsClamped(timecode) ==
    LET parts == Split(timecode, ";")
        hours == Component(parts, 1)
        minutes == Component(parts, 2)
        seconds == Component(parts, 3)
        frames == Component(parts, 4)
        clamped == IF frames.val > 29 THEN 29 ELSE frames.val
    IN  IF hours.nan \/ minutes.nan \/ seconds.nan \/ frames.nan THEN NaN
        ELSE JsNum((hours.val * 3600000) + (minutes.val * 60000) + (seconds.val * 1000)
                   + ((clamped * 1000) \div 30))

timecodeToMs(timecode) ==
    LET parts == Split(timecode, ";")
        hours == Component(parts, 1)
        minutes == Component(parts, 2)
        seconds == Component(parts, 3)
        frames == Component(parts, 4)
        \* Math.floor(frames * (1000 / 30)) is floor(frames * 1000 / 30) for every
        \* integer frames: the double 1000/30 lies above 100/3 by less than 1e-14
    IN  IF hours.nan \/ minutes.nan \/ seconds.nan \/ frames.nan THEN NaN
        ELSE JsNum((hours.val * 3600000) + (minutes.val * 60000) + (seconds.val * 1000)
                   + ((frames.val * 1000) \div 30))

\* msToTimecode counting 25 frames in a second
msToTimecode25fps(ms) ==
    LET hours == ms \div 3600000
        minutes == (ms % 3600000) \div 60000
        seconds == (ms % 60000) \div 1000
        frames == ((ms % 1000) * 25) \div 1000
    IN  PadStart2(toString(hours)) \o <<";">> \o PadStart2(toString(minutes)) \o <<";">>
        \o PadStart2(toString(seconds)) \o <<";">> \o PadStart2(toString(frames))

\* msToTimecode whose minutes are not reduced modulo the hour
msToTimecodeNoWrap(ms) ==
    LET hours == ms \div 3600000
        minutes == ms \div 60000
        seconds == (ms % 60000) \div 1000
        frames == ((ms % 1000) * 30) \div 1000
    IN  PadStart2(toString(hours)) \o <<";">> \o PadStart2(toString(minutes)) \o <<";">>
        \o PadStart2(toString(seconds)) \o <<";">> \o PadStart2(toString(frames))

msToTimecode(ms) ==
    LET hours == ms \div 3600000
        minutes == (ms % 3600000) \div 60000
        seconds == (ms % 60000) \div 1000
        frames == ((ms % 1000) * 30) \div 1000
    IN  PadStart2(toString(hours)) \o <<";">> \o PadStart2(toString(minutes)) \o <<";">>
        \o PadStart2(toString(seconds)) \o <<";">> \o PadStart2(toString(frames))

\* a timecode string written with separator sep, each component padded to two digits
Timecode(sep, h, m, s, f) ==
    PadStart2(toString(h)) \o <<sep>> \o PadStart2(toString(m)) \o <<sep>>
    \o PadStart2(toString(s)) \o <<sep>> \o PadStart2(toString(f))

----------------------------------------------------------------------------
(* findSpeakerAtTime *)

\* A PremiereSegment keeps the columns the code reads.  A probe time is held
\* doubled (timeMs2 = 2 * timeMs), so that the midpoint of integer start and end,
\* start + (end - start) / 2, stays an integer.
PremiereSegment(speaker, startTime, endTime) ==
    [SpeakerName |-> speaker, StartTime |-> startTime, EndTime |-> endTime]

\* InInterval with the end excluded: timeMs >= startMs && timeMs < endMs
InIntervalExclusiveEnd(timeMs2, segment) ==
    LET startMs == timecodeToMs(segment.StartTime)
        endMs == timecodeToMs(segment.EndTime)
    IN  /\ ~startMs.nan /\ timeMs2 >= 2 * startMs.val
        /\ ~endMs.nan /\ timeMs2 < 2 * endMs.val

\* InInterval with the start excluded: timeMs > startMs && timeMs <= endMs
InIntervalExclusiveStart(timeMs2, segment) ==
    LET startMs == timecodeToMs(segment.StartTime)
        endMs == timecodeToMs(segment.EndTime)
    IN  /\ ~startMs.nan /\ timeMs2 > 2 * startMs.val
        /\ ~endMs.nan /\ timeMs2 <= 2 * endMs.val

\* timeMs >= startMs && timeMs <= endMs; a comparison with NaN is false
InInterval(timeMs2, segment) ==
    LET startMs == timecodeToMs(segment.StartTime)
        endMs == timecodeToMs(segment.EndTime)
    IN  /\ ~startMs.nan /\ timeMs2 >= 2 * startMs.val
        /\ ~endMs.nan /\ timeMs2 <= 2 * endMs.val

\* where the for-of loop stands: the index of the segment it looks at next, and
\* the value returned once it has returned
ScanStart == [pc |-> "scan", index |-> 1, result |-> ""]

\* ScanStep without the early return: the loop runs on and the last match wins
ScanStepLastMatch(st, timeMs2, premiereSegments) ==
    IF st.index > Len(premiereSegments)
    THEN [st EXCEPT !.pc = "done", !.result = IF st.result = "" THEN "Unknown" ELSE st.result]
    ELSE IF InInterval(timeMs2, premiereSegments[st.index])
    THEN [st EXCEPT !.index = @ + 1, !.result = premiereSegments[st.index].SpeakerName]
    ELSE [st EXCEPT !.index = @ + 1]

\* one iteration of the loop, or the return after it
ScanStep(st, timeMs2, premiereSegments) ==
    IF st.index > Len(premiereSegments)
    THEN [st EXCEPT !.pc = "done", !.result = "Unknown"]
    ELSE IF InInterval(timeMs2, premiereSegments[st.index])
    THEN [st EXCEPT !.pc = "done", !.result = premiereSegments[st.index].SpeakerName]
    ELSE [st EXCEPT !.index = @ + 1]

RECURSIVE ScanLoop(_, _, _)
ScanLoop(st, timeMs2, premiereSegments) ==
    IF st.pc = "done" THEN st.result
    ELSE ScanLoop(ScanStep(st, timeMs2, premiereSegments), timeMs2, premiereSegments)

findSpeakerAtTime(timeMs2, premiereSegments) == ScanLoop(ScanStart, timeMs2, premiereSegments)

----------------------------------------------------------------------------
(* generateMarkdown *)

EnhancedSegment(speaker, startTime, endTime, text) ==
    [speaker |-> speaker, startTime |-> startTime, endTime |-> endTime, text |-> text]

\* the object pushed onto currentSegments
Collected(segment) ==
    [text |-> segment.text, startTime |-> segment.startTime, endTime |-> segment.endTime]

\* one line of a block
RenderLine(seg, withTimestamps) ==
    IF withTimestamps
    THEN <<"[">> \o msToTimecode(seg.startTime) \o <<" - ">> \o msToTimecode(seg.endTime)
         \o <<"] ", seg.text, "\n">>
    ELSE <<seg.text, "\n">>

RECURSIVE RenderLines(_, _)
RenderLines(segs, withTimestamps) ==
    IF segs = <<>> THEN <<>>
    ELSE RenderLine(Head(segs), withTimestamps) \o RenderLines(Tail(segs), withTimestamps)

\* the heading, the collected lines and the blank line that close a block
RenderBlock(speaker, segs, withTimestamps) ==
    <<"**", speaker, "**", "\n">> \o RenderLines(segs, withTimestamps) \o <<"\n">>

\* the locals of generateMarkdown before the loop
MarkdownStart == [markdown |-> <<>>, currentSpeaker |-> "", currentSegments |-> <<>>]

\* the callback without its last-index branch: the block that is still being
\* collected when the loop ends is never written
CallbackNoFinalFlush(st, segment, idx, length, withTimestamps) ==
    IF segment.speaker # st.currentSpeaker
    THEN [markdown |->
              IF Len(st.currentSegments) > 0
              THEN st.markdown
                   \o RenderBlock(st.currentSpeaker, st.currentSegments, withTimestamps)
              ELSE st.markdown,
          currentSpeaker |-> segment.speaker,
          currentSegments |-> <<Collected(segment)>>]
    ELSE [st EXCEPT !.currentSegments = Append(@, Collected(segment))]

\* the forEach callback: st holds the three locals, idx is the 0-based index and
\* length is segments.length
Callback(st, segment, idx, length, withTimestamps) ==
    IF segment.speaker # st.currentSpeaker \/ idx = length - 1
    THEN LET collected == IF idx = length - 1
                          THEN Append(st.currentSegments, Collected(segment))
                          ELSE st.currentSegments
         IN  [markdown |->
                  IF Len(collected) > 0
                  THEN st.markdown \o RenderBlock(st.currentSpeaker, collected, withTimestamps)
                  ELSE st.markdown,
              currentSpeaker |-> segment.speaker,
              currentSegments |->
                  IF idx # length - 1 THEN <<Collected(segment)>> ELSE <<>>]
    ELSE [st EXCEPT !.currentSegments = Append(@, Collected(segment))]

RECURSIVE ForEach(_, _, _, _)
ForEach(st, segs, idx, withTimestamps) ==
    IF idx >= Len(segs) THEN st
    ELSE ForEach(Callback(st, segs[idx + 1], idx, Len(segs), withTimestamps),
                 segs, idx + 1, withTimestamps)

generateMarkdown(segs, withTimestamps) ==
    ForEach(MarkdownStart, segs, 0, withTimestamps).markdown

----------------------------------------------------------------------------
(* Inputs *)

Speakers == {"Alice", "Bob", "Unknown"}
Texts == {"hello", "bye"}

\* the hours, minutes, seconds and frames written into a timecode cell: the
\* values a timecode has, and minutes, seconds and frames beyond them
TimecodeFields ==
    {<<h, m, s, f>> : h \in 0..MaxHours, m \in 0..60, s \in 0..60, f \in 0..MaxFrames}

\* millisecond values handed to msToTimecode: every sub-second part in the
\* first and last second of the first and last minute of each hour
MsInputs ==
    {(h * 3600000) + (m * 60000) + (s * 1000) + r :
        h \in 0..MaxHours, m \in {0, 59}, s \in {0, 59}, r \in 0..999}

\* how far after a millisecond value a later one lies
MsDeltas == {1, 34, 1000, 60000, 3600000}

\* start and end of the segments handed to generateMarkdown
SegmentTimes == {<<1000, 3000>>, <<3000, 3533>>}

EnhancedSegments ==
    {EnhancedSegment(sp, t[1], t[2], tx) : sp \in Speakers, t \in SegmentTimes, tx \in Texts}

\* Start Time / End Time cells of the markers: 0 ms, 2500 ms, and a cell whose
\* frames are no number, which converts to NaN
MarkerTimecodes ==
    {Timecode(";", 0, 0, 0, 0), Timecode(";", 0, 0, 2, 15),
     <<"0", "0", ";", "0", "0", ";", "0", "5", ";", "x", "x">>}

Markers ==
    {PremiereSegment(sp, a, b) : sp \in Speakers, a \in MarkerTimecodes, b \in MarkerTimecodes}

\* doubled probe times: 0, 1000, 2500 and 2500.5 ms
ProbeTimes2 == {0, 2000, 5000, 5001}

----------------------------------------------------------------------------
(* The state of a part of the program that is not running *)

TimecodeIdle ==
    tcPc = "idle" /\ tcFields = <<>> /\ tcIn = <<>> /\ tcMs = NaN /\ tcOut = <<>>

EncodeIdle ==
    /\ encPc = "idle" /\ encMs = 0 /\ encDelta = 0 /\ encTimecode = <<>>
    /\ encLater = <<>> /\ encBack = NaN

FindIdle ==
    fsPc = "idle" /\ fsTimeMs2 = 0 /\ fsMarkers = <<>> /\ fsIndex = 1 /\ fsResult = ""

MarkdownIdle ==
    /\ mdPc = "idle" /\ segments = <<>> /\ includeTimestamps = FALSE /\ index = 0
    /\ markdown = <<>> /\ currentSpeaker = "" /\ currentSegments = <<>>

----------------------------------------------------------------------------
(* Timecode conversions: a timecode cell converted to milliseconds and
   re-encoded *)

ConvertTimecode ==
    /\ tcPc = "timecode"
    /\ tcMs' = timecodeToMs(tcIn)
    /\ tcPc' = "ms"
    /\ UNCHANGED <<tcFields, tcIn, tcOut, fsVars, mdVars, reqVars, encVars>>

EncodeMs ==
    /\ tcPc = "ms"
    /\ ~tcMs.nan
    /\ tcOut' = msToTimecode(tcMs.val)
    /\ tcPc' = "done"
    /\ UNCHANGED <<tcFields, tcIn, tcMs, fsVars, mdVars, reqVars, encVars>>

----------------------------------------------------------------------------
(* The reverse conversions: a millisecond value and a later one encoded by
   msToTimecode, and the first timecode converted back *)

EncodeBoth ==
    /\ encPc = "ms"
    /\ encTimecode' = msToTimecode(encMs)
    /\ encLater' = msToTimecode(encMs + encDelta)
    /\ encPc' = "timecode"
    /\ UNCHANGED <<encMs, encDelta, encBack, tcVars, fsVars, mdVars, reqVars>>

ConvertBack ==
    /\ encPc = "timecode"
    /\ encBack' = timecodeToMs(encTimecode)
    /\ encPc' = "done"
    /\ UNCHANGED <<encMs, encDelta, encTimecode, encLater, tcVars, fsVars, mdVars, reqVars>>

----------------------------------------------------------------------------
(* findSpeakerAtTime: the loop over premiereSegments *)

Scan ==
    /\ fsPc = "scan"
    /\ LET st == ScanStep([pc |-> fsPc, index |-> fsIndex, result |-> fsResult],
                          fsTimeMs2, fsMarkers)
       IN  /\ fsPc' = st.pc
           /\ fsIndex' = st.index
           /\ fsResult' = st.result
    /\ UNCHANGED <<fsTimeMs2, fsMarkers, tcVars, mdVars, reqVars, encVars>>

----------------------------------------------------------------------------
(* generateMarkdown: the forEach loop *)

ForEachSegment ==
    /\ mdPc = "loop"
    /\ index < Len(segments)
    /\ LET st == Callback([markdown |-> markdown, currentSpeaker |-> currentSpeaker,
                           currentSegments |-> currentSegments],
                          segments[index + 1], index, Len(segments), includeTimestamps)
       IN  /\ markdown' = st.markdown
           /\ currentSpeaker' = st.currentSpeaker
           /\ currentSegments' = st.currentSegments
    /\ index' = index + 1
    /\ UNCHANGED <<mdPc, segments, includeTimestamps, tcVars, fsVars, reqVars, encVars>>

ReturnMarkdown ==
    /\ mdPc = "loop"
    /\ index = Len(segments)
    /\ mdPc' = "done"
    /\ UNCHANGED <<segments, includeTimestamps, index, markdown, currentSpeaker,
                   currentSegments, tcVars, fsVars, reqVars, encVars>>

----------------------------------------------------------------------------
(* The uploaded files and csv-parse *)

\* An uploaded file: absent from the form, or a text.  A text is held as csv-parse
\* sees it: whether it has a header line, its data rows, and the message of the
\* error parse() throws on it (<<>> when it parses).
File(present, header, rows, parseError) ==
    [present |-> present, header |-> header, rows |-> rows, parseError |-> parseError]

MissingFile == File(FALSE, FALSE, <<>>, <<>>)
BlankText == File(TRUE, FALSE, <<>>, <<>>)

\* !text.trim()
IsBlank(file) == ~file.header /\ file.rows = <<>> /\ file.parseError = <<>>

WhisperSegment(start, end, text) == [start |-> start, end |-> end, text |-> text]

\* error.message.includes(sub): a message is the sequence of its pieces
Includes(message, sub) == \E i \in 1..Len(message) : message[i] = sub

----------------------------------------------------------------------------
(* mergeTranscripts *)

\* text.trim(): a quoted cell keeps the blanks inside its quotes through the
\* parse, and trim removes them
Trim(text) == IF text = " hello " THEN "hello" ELSE text

\* the probe put at the start of the segment instead of its midpoint, doubled
MidpointAtStart2(whisperSegment) == 2 * whisperSegment.start

\* whisperSegment.start + (whisperSegment.end - whisperSegment.start) / 2, doubled
MidpointMs2(whisperSegment) ==
    2 * whisperSegment.start + (whisperSegment.end - whisperSegment.start)

Enhance(whisperSegment, premiereSegments) ==
    EnhancedSegment(findSpeakerAtTime(MidpointMs2(whisperSegment), premiereSegments),
                    whisperSegment.start, whisperSegment.end, Trim(whisperSegment.text))

EnhanceAll(whisperSegments, premiereSegments) ==
    [i \in 1..Len(whisperSegments) |-> Enhance(whisperSegments[i], premiereSegments)]

\* csv-stringify with quoted: true: every cell between double quotes
Quoted(cell) == <<"\"">> \o cell \o <<"\"">>

StringifyRow(cells) ==
    Quoted(cells[1]) \o <<",">> \o Quoted(cells[2]) \o <<",">> \o Quoted(cells[3])
    \o <<",">> \o Quoted(cells[4]) \o <<"\n">>

\* StringifyRows writing one row per run of segments of the same speaker
RECURSIVE StringifyRowsGrouped(_)
StringifyRowsGrouped(segs) ==
    IF segs = <<>> THEN <<>>
    ELSE IF Len(segs) >= 2 /\ segs[1].speaker = segs[2].speaker
    THEN StringifyRowsGrouped(Tail(segs))
    ELSE StringifyRow(<<<<Head(segs).speaker>>, msToTimecode(Head(segs).startTime),
                        msToTimecode(Head(segs).endTime), <<Head(segs).text>>>>)
         \o StringifyRowsGrouped(Tail(segs))

RECURSIVE StringifyRows(_)
StringifyRows(segs) ==
    IF segs = <<>> THEN <<>>
    ELSE StringifyRow(<<<<Head(segs).speaker>>, msToTimecode(Head(segs).startTime),
                        msToTimecode(Head(segs).endTime), <<Head(segs).text>>>>)
         \o StringifyRows(Tail(segs))

\* header: true with columns given: the header line is written first, also when
\* there are no records
stringify(segs) ==
    StringifyRow(<<<<"speaker">>, <<"startTime">>, <<"endTime">>, <<"text">>>>)
    \o StringifyRows(segs)

NotCalled ==
    [called |-> FALSE, threw |-> FALSE, message |-> <<>>, enhancedSegments |-> <<>>,
     csv |-> <<>>, markdownWithTimestamps |-> <<>>, markdownClean |-> <<>>]

Thrown(message) == [NotCalled EXCEPT !.called = TRUE, !.threw = TRUE, !.message = message]

\* cast: true turns a text cell that reads as a number into a number, which has
\* no trim method: whisperSegment.text.trim() then throws this TypeError
CastToNumber(text) == text \in {"42"}
TrimTypeError == <<"whisperSegment.text.trim is not a function">>

\* the value mergeTranscripts returns, or the error it throws
mergeTranscripts(whisperCsv, premiereCsv) ==
    IF whisperCsv.parseError # <<>> THEN Thrown(whisperCsv.parseError)
    ELSE IF premiereCsv.parseError # <<>> THEN Thrown(premiereCsv.parseError)
    ELSE IF \E i \in 1..Len(whisperCsv.rows) : CastToNumber(whisperCsv.rows[i].text)
    THEN Thrown(TrimTypeError)
    ELSE LET enhancedSegments == EnhanceAll(whisperCsv.rows, premiereCsv.rows)
         IN  [called |-> TRUE, threw |-> FALSE, message |-> <<>>,
              enhancedSegments |-> enhancedSegments,
              csv |-> stringify(enhancedSegments),
              markdownWithTimestamps |-> generateMarkdown(enhancedSegments, TRUE),
              markdownClean |-> generateMarkdown(enhancedSegments, FALSE)]

----------------------------------------------------------------------------
(* action: the route handler *)

Pending == [pending |-> TRUE]

\* !csv.trim()
TrimIsEmpty(out) == \A i \in 1..Len(out) : out[i] \in {"", " ", "\n"}

\* the catch block testing for 'columns' before 'INVALID_OPENING_QUOTE'
CatchDetailsColumnsFirst(message) ==
    IF Includes(message, "columns")
    THEN "The CSV files appear to have an incorrect column structure. Please ensure they match the expected format."
    ELSE IF Includes(message, "INVALID_OPENING_QUOTE")
    THEN "One of your CSV files has invalid quote formatting. Please check for mismatched quotes or try re-exporting the file."
    ELSE "Please ensure they are valid CSV files."

\* the catch block's choice of details
CatchDetails(message) ==
    IF Includes(message, "INVALID_OPENING_QUOTE")
    THEN "One of your CSV files has invalid quote formatting. Please check for mismatched quotes or try re-exporting the file."
    ELSE IF Includes(message, "columns")
    THEN "The CSV files appear to have an incorrect column structure. Please ensure they match the expected format."
    ELSE "Please ensure they are valid CSV files."

RequestIdle ==
    /\ pc = "idle" /\ whisperFile = MissingFile /\ premiereFile = MissingFile
    /\ merged = NotCalled /\ response = Pending

ReceiveForm ==
    /\ pc = "request"
    /\ IF ~whisperFile.present \/ ~premiereFile.present
       THEN /\ response' = [error |-> "Both files are required"]
            /\ pc' = "done"
       ELSE /\ pc' = "read"
            /\ UNCHANGED response
    /\ UNCHANGED <<whisperFile, premiereFile, merged, tcVars, fsVars, mdVars, encVars>>

\* ReadTexts rejecting the upload only when both texts are blank
ReadTextsBothBlank ==
    /\ pc = "read"
    /\ IF IsBlank(whisperFile) /\ IsBlank(premiereFile)
       THEN /\ response' = [error |-> "Files appear to be empty",
                            details |-> "Please check that your CSV files contain valid data."]
            /\ pc' = "done"
       ELSE /\ pc' = "merge"
            /\ UNCHANGED response
    /\ UNCHANGED <<whisperFile, premiereFile, merged, tcVars, fsVars, mdVars, encVars>>

ReadTexts ==
    /\ pc = "read"
    /\ IF IsBlank(whisperFile) \/ IsBlank(premiereFile)
       THEN /\ response' = [error |-> "Files appear to be empty",
                            details |-> "Please check that your CSV files contain valid data."]
            /\ pc' = "done"
       ELSE /\ pc' = "merge"
            /\ UNCHANGED response
    /\ UNCHANGED <<whisperFile, premiereFile, merged, tcVars, fsVars, mdVars, encVars>>

Merge ==
    /\ pc = "merge"
    /\ merged' = mergeTranscripts(whisperFile, premiereFile)
    /\ IF merged'.threw
       THEN /\ response' = [error |-> "Error processing files.",
                            details |-> CatchDetails(merged'.message)]
            /\ pc' = "done"
       ELSE /\ pc' = "respond"
            /\ UNCHANGED response
    /\ UNCHANGED <<whisperFile, premiereFile, tcVars, fsVars, mdVars, encVars>>

\* Respond leaving markdownClean out of the success response
RespondPartial ==
    /\ pc = "respond"
    /\ response' =
           IF TrimIsEmpty(merged.csv)
           THEN [error |-> "No valid segments were found to merge",
                 details |-> "Please check that your CSV files have the correct format and contain valid data."]
           ELSE [success |-> TRUE, csvData |-> merged.csv,
                 markdownWithTimestamps |-> merged.markdownWithTimestamps,
                 filename |-> "YYYY-MM-DD"]
    /\ pc' = "done"
    /\ UNCHANGED <<whisperFile, premiereFile, merged, tcVars, fsVars, mdVars, encVars>>

Respond ==
    /\ pc = "respond"
    /\ response' =
           IF TrimIsEmpty(merged.csv)
           THEN [error |-> "No valid segments were found to merge",
                 details |-> "Please check that your CSV files have the correct format and contain valid data."]
           ELSE [success |-> TRUE, csvData |-> merged.csv,
                 markdownWithTimestamps |-> merged.markdownWithTimestamps,
                 markdownClean |-> merged.markdownClean, filename |-> "YYYY-MM-DD"]
    /\ pc' = "done"
    /\ UNCHANGED <<whisperFile, premiereFile, merged, tcVars, fsVars, mdVars, encVars>>

----------------------------------------------------------------------------
(* The uploads of a request *)

WhisperTimes == {<<1000, 3000>>, <<4000, 7000>>, <<5000, 5001>>}

\* the segments of the speech source, one whose text cell is a number, and one
\* whose quoted text cell has blanks around the text
WhisperRows ==
    {WhisperSegment(t[1], t[2], tx) : t \in WhisperTimes, tx \in Texts}
    \cup {WhisperSegment(1000, 3000, "42"), WhisperSegment(4000, 7000, " hello ")}

PremiereCells ==
    {<<Timecode(";", 0, 0, 0, 0), Timecode(";", 0, 0, 5, 0)>>,
     <<Timecode(":", 0, 0, 0, 0), Timecode(":", 0, 0, 5, 0)>>,
     <<Timecode(";", 0, 0, 5, 0), Timecode(";", 0, 0, 10, 0)>>}

PremiereRows == {PremiereSegment(sp, c[1], c[2]) : sp \in {"Alice", "Bob"}, c \in PremiereCells}

ErrorMessages ==
    {<<"INVALID_OPENING_QUOTE">>, <<"columns">>, <<"INVALID_OPENING_QUOTE", "columns">>,
     <<"other">>}

Uploads(rows, maxRows) ==
    {MissingFile, BlankText}
    \cup {File(TRUE, TRUE, r, <<>>) : r \in SeqsUpTo(rows, maxRows)}
    \cup {File(TRUE, TRUE, <<>>, e) : e \in ErrorMessages}

----------------------------------------------------------------------------
(* Specifications *)

\* one request through action
Init ==
    /\ pc = "request"
    /\ whisperFile \in Uploads(WhisperRows, MaxWhisperRows)
    /\ premiereFile \in Uploads(PremiereRows, MaxPremiereRows)
    /\ merged = NotCalled
    /\ response = Pending
    /\ TimecodeIdle /\ EncodeIdle /\ FindIdle /\ MarkdownIdle

Next == ReceiveForm \/ ReadTexts \/ Merge \/ Respond

Spec == Init /\ [][Next]_vars

\* timecodeToMs and msToTimecode on every timecode cell
InitTimecode ==
    /\ tcPc = "timecode"
    /\ tcFields \in TimecodeFields
    /\ tcIn = Timecode(";", tcFields[1], tcFields[2], tcFields[3], tcFields[4])
    /\ tcMs = NaN
    /\ tcOut = <<>>
    /\ EncodeIdle /\ FindIdle /\ MarkdownIdle /\ RequestIdle

NextTimecode == ConvertTimecode \/ EncodeMs

SpecTimecode == InitTimecode /\ [][NextTimecode]_vars

\* msToTimecode on millisecond values, and timecodeToMs on its result
InitEncode ==
    /\ encPc = "ms"
    /\ encMs \in MsInputs
    /\ encDelta \in MsDeltas
    /\ encTimecode = <<>>
    /\ encLater = <<>>
    /\ encBack = NaN
    /\ TimecodeIdle /\ FindIdle /\ MarkdownIdle /\ RequestIdle

NextEncode == EncodeBoth \/ ConvertBack

SpecEncode == InitEncode /\ [][NextEncode]_vars

\* findSpeakerAtTime on every marker list and probe time
InitFind ==
    /\ fsPc = "scan"
    /\ fsTimeMs2 \in ProbeTimes2
    /\ fsMarkers \in SeqsUpTo(Markers, MaxMarkers)
    /\ fsIndex = 1
    /\ fsResult = ""
    /\ TimecodeIdle /\ EncodeIdle /\ MarkdownIdle /\ RequestIdle

NextFind == Scan

SpecFind == InitFind /\ [][NextFind]_vars

\* generateMarkdown on every sequence of aligned segments
InitMarkdown ==
    /\ mdPc = "loop"
    /\ segments \in SeqsUpTo(EnhancedSegments, MaxSegments)
    /\ includeTimestamps \in BOOLEAN
    /\ index = 0
    /\ markdown = <<>>
    /\ currentSpeaker = ""
    /\ currentSegments = <<>>
    /\ TimecodeIdle /\ EncodeIdle /\ FindIdle /\ RequestIdle

NextMarkdown == ForEachSegment \/ ReturnMarkdown

SpecMarkdown == InitMarkdown /\ [][NextMarkdown]_vars

----------------------------------------------------------------------------
(* Grouping as the specification describes it, and how to read a rendered
   markdown back *)

\* speakers of the maximal runs of consecutive segments with the same speaker
RECURSIVE RunSpeakers(_)
RunSpeakers(segs) ==
    IF segs = <<>> THEN <<>>
    ELSE IF Len(segs) >= 2 /\ segs[1].speaker = segs[2].speaker THEN RunSpeakers(Tail(segs))
    ELSE <<segs[1].speaker>> \o RunSpeakers(Tail(segs))

\* where the heading lines of a rendered markdown start
HeadingStarts(md) ==
    {i \in 1..(Len(md) - 3) :
        /\ md[i] = "**" /\ md[i + 2] = "**" /\ md[i + 3] = "\n"
        /\ (i = 1 \/ md[i - 1] = "\n")}

RECURSIVE HeadingsFrom(_, _)
HeadingsFrom(md, i) ==
    IF i > Len(md) THEN <<>>
    ELSE IF i \in HeadingStarts(md) THEN <<md[i + 1]>> \o HeadingsFrom(md, i + 4)
    ELSE HeadingsFrom(md, i + 1)

\* the speakers named by the headings of a rendered markdown, in order
Headings(md) == HeadingsFrom(md, 1)

\* the last block of a rendered markdown, from its heading to the end
FinalBlock(md) ==
    LET last == CHOOSE i \in HeadingStarts(md) : \A j \in HeadingStarts(md) : j <= i
    IN  SubSeq(md, last, Len(md))

\* whether the tokens of part occur contiguously in whole
Occurs(part, whole) ==
    \E k \in 0..(Len(whole) - Len(part)) : SubSeq(whole, k + 1, k + Len(part)) = part

\* the accumulate/flush state machine: no current speaker and an empty buffer at
\* the start; a segment of the current speaker joins the buffer, any other
\* flushes the buffer as a block and starts a new one; the buffer left at the end
\* is flushed
Flushed(st) ==
    IF st.buffer = <<>> THEN st.blocks
    ELSE Append(st.blocks, [speaker |-> st.speaker, segs |-> st.buffer])

Accumulate(st, segment) ==
    IF st.started /\ segment.speaker = st.speaker
    THEN [st EXCEPT !.buffer = Append(@, Collected(segment))]
    ELSE [started |-> TRUE, speaker |-> segment.speaker,
          buffer |-> <<Collected(segment)>>, blocks |-> Flushed(st)]

RECURSIVE AccumulateAll(_, _)
AccumulateAll(st, segs) ==
    IF segs = <<>> THEN st ELSE AccumulateAll(Accumulate(st, Head(segs)), Tail(segs))

GroupedBlocks(segs) ==
    Flushed(AccumulateAll([started |-> FALSE, speaker |-> "", buffer |-> <<>>,
                           blocks |-> <<>>], segs))

RECURSIVE RenderBlocks(_, _)
RenderBlocks(blocks, withTimestamps) ==
    IF blocks = <<>> THEN <<>>
    ELSE RenderBlock(Head(blocks).speaker, Head(blocks).segs, withTimestamps)
         \o RenderBlocks(Tail(blocks), withTimestamps)

----------------------------------------------------------------------------
(* Claims about generateMarkdown, checked under SpecMarkdown *)

\* C1 (final flush).  When the sequence has at least two segments and the last
\* segment's speaker differs from the one before it, the rendered markdown, with
\* or without timestamps, ends in a block whose heading names the last segment's
\* speaker and that holds the last segment's line.
C1_FinalFlush ==
    (/\ mdPc = "done"
     /\ Len(segments) >= 2
     /\ segments[Len(segments)].speaker # segments[Len(segments) - 1].speaker)
    => /\ HeadingStarts(markdown) # {}
       /\ FinalBlock(markdown)[2] = segments[Len(segments)].speaker
       /\ Occurs(RenderLine(Collected(segments[Len(segments)]), includeTimestamps),
                 FinalBlock(markdown))

\* C2 (grouping adjacency).  The rendered markdown has exactly one block per
\* maximal run of consecutive segments with the same speaker, in order: its
\* headings are the speakers of the runs ([A, B, A] gives headings A, B, A).
C2_OneBlockPerRun ==
    mdPc = "done" => Headings(markdown) = RunSpeakers(segments)

\* C3 (single segment).  One segment with speaker S and text T renders, without
\* timestamps, as exactly the heading **S**, the line T and a blank line.
C3_SingleSegment ==
    (mdPc = "done" /\ Len(segments) = 1 /\ ~includeTimestamps)
    => markdown = <<"**", segments[1].speaker, "**", "\n", segments[1].text, "\n", "\n">>

\* C4 (state machine).  generateMarkdown renders exactly the blocks of the
\* accumulate/flush state machine, for every segment sequence.
C4_AccumulateFlush ==
    mdPc = "done" => markdown = RenderBlocks(GroupedBlocks(segments), includeTimestamps)

----------------------------------------------------------------------------
(* Claims about the request, checked under Spec *)

\* the request of the scenario: one segment from 1000 ms to 3000 ms, and as first
\* marker Alice's, from 0 s to 5 s, its timecodes written with separator sep
ScenarioMerged(sep) ==
    /\ merged.called /\ ~merged.threw
    /\ Len(whisperFile.rows) >= 1
    /\ whisperFile.rows[1].start = 1000 /\ whisperFile.rows[1].end = 3000
    /\ Len(premiereFile.rows) >= 1
    /\ premiereFile.rows[1] =
           PremiereSegment("Alice", Timecode(sep, 0, 0, 0, 0), Timecode(sep, 0, 0, 5, 0))

\* C5 as stated.  A marker written with ':' between hours, minutes, seconds and
\* frames, from 00:00:00:00 to 00:00:05:00, is the interval [0 ms, 5000 ms], and
\* the segment from 1000 to 3000 is attributed to its speaker, Alice.
C5_ColonTimecode ==
    ScenarioMerged(":")
    => /\ timecodeToMs(premiereFile.rows[1].StartTime) = JsNum(0)
       /\ timecodeToMs(premiereFile.rows[1].EndTime) = JsNum(5000)
       /\ merged.enhancedSegments[1].speaker = "Alice"

\* C5 amended.  A marker written with ';' between hours, minutes, seconds and
\* frames, from 00;00;00;00 to 00;00;05;00, is the interval [0 ms, 5000 ms], and
\* the segment from 1000 to 3000 is attributed to its speaker, Alice.
C5_SemicolonTimecode ==
    ScenarioMerged(";")
    => /\ timecodeToMs(premiereFile.rows[1].StartTime) = JsNum(0)
       /\ timecodeToMs(premiereFile.rows[1].EndTime) = JsNum(5000)
       /\ merged.enhancedSegments[1].speaker = "Alice"

C5_Witness ==
    /\ pc = "done"
    /\ ScenarioMerged(";")
    /\ whisperFile.rows[1].text = "hello"
    /\ merged.enhancedSegments[1] = EnhancedSegment("Alice", 1000, 3000, "hello")

\* C6 (empty result).  When the speech-source text parses to zero segments,
\* mergeTranscripts returns the empty string for csv, markdownWithTimestamps and
\* markdownClean, and the action answers with the 'No valid segments were found
\* to merge' error.
C6_EmptyResult ==
    (merged.called /\ ~merged.threw /\ whisperFile.rows = <<>>)
    => /\ merged.csv = <<>>
       /\ merged.markdownWithTimestamps = <<>>
       /\ merged.markdownClean = <<>>
       /\ pc = "done" =>
              /\ "error" \in DOMAIN response
              /\ response.error = "No valid segments were found to merge"

----------------------------------------------------------------------------
(* Claims about findSpeakerAtTime, checked under SpecFind *)

\* the interval [startMs, endMs] of a marker contains the probe time
Contains(timeMs2, marker) ==
    LET startMs == timecodeToMs(marker.StartTime)
        endMs == timecodeToMs(marker.EndTime)
    IN  /\ ~startMs.nan /\ ~endMs.nan
        /\ 2 * startMs.val <= timeMs2 /\ timeMs2 <= 2 * endMs.val

\* the probe time is exactly the marker's startMs or its endMs
OnBoundary(timeMs2, marker) ==
    LET startMs == timecodeToMs(marker.StartTime)
        endMs == timecodeToMs(marker.EndTime)
    IN  \/ ~startMs.nan /\ timeMs2 = 2 * startMs.val
        \/ ~endMs.nan /\ timeMs2 = 2 * endMs.val

\* both timecodes of the marker convert and startMs <= endMs
WellFormed(marker) ==
    LET startMs == timecodeToMs(marker.StartTime)
        endMs == timecodeToMs(marker.EndTime)
    IN  ~startMs.nan /\ ~endMs.nan /\ startMs.val <= endMs.val

ContainingIndexes == {i \in 1..Len(fsMarkers) : Contains(fsTimeMs2, fsMarkers[i])}

NoEarlierContains(i) == \A j \in 1..(i - 1) : ~Contains(fsTimeMs2, fsMarkers[j])

\* C7 as stated.  A probe time equal to the startMs or the endMs of a marker that
\* no earlier-listed marker contains gets that marker's speaker.
C7_Boundary ==
    fsPc = "done" =>
        \A i \in 1..Len(fsMarkers) :
            (OnBoundary(fsTimeMs2, fsMarkers[i]) /\ NoEarlierContains(i))
            => fsResult = fsMarkers[i].SpeakerName

\* C7 amended.  A probe time equal to the startMs or the endMs of a marker whose
\* timecodes both convert, with startMs <= endMs, and that no earlier-listed
\* marker contains, gets that marker's speaker.
C7_InclusiveBoundary ==
    fsPc = "done" =>
        \A i \in 1..Len(fsMarkers) :
            (/\ WellFormed(fsMarkers[i])
             /\ OnBoundary(fsTimeMs2, fsMarkers[i])
             /\ NoEarlierContains(i))
            => fsResult = fsMarkers[i].SpeakerName

\* the probe sits on the endMs of the first marker, which starts earlier, and the
\* next marker, of another speaker, contains it too
C7_Witness ==
    /\ fsPc = "done"
    /\ Len(fsMarkers) = 2
    /\ WellFormed(fsMarkers[1])
    /\ timecodeToMs(fsMarkers[1].StartTime).val < timecodeToMs(fsMarkers[1].EndTime).val
    /\ fsTimeMs2 = 2 * timecodeToMs(fsMarkers[1].EndTime).val
    /\ Contains(fsTimeMs2, fsMarkers[2])
    /\ fsMarkers[2].SpeakerName # fsMarkers[1].SpeakerName
    /\ fsMarkers[1].SpeakerName # "Unknown"
    /\ fsResult = fsMarkers[1].SpeakerName

\* C8 (first match).  When some marker contains the probe time, the result is
\* the speaker of the lowest-index marker that contains it, whatever the start
\* times of the markers.
C8_FirstMatch ==
    (fsPc = "done" /\ ContainingIndexes # {})
    => LET first == CHOOSE i \in ContainingIndexes : \A j \in ContainingIndexes : i <= j
       IN  fsResult = fsMarkers[first].SpeakerName

\* two markers of different speakers contain the probe, the later-listed one
\* starts earlier, and the earlier-listed one wins
C8_Witness ==
    /\ fsPc = "done"
    /\ ContainingIndexes = {1, 2}
    /\ timecodeToMs(fsMarkers[2].StartTime).val < timecodeToMs(fsMarkers[1].StartTime).val
    /\ fsMarkers[1].SpeakerName # fsMarkers[2].SpeakerName
    /\ fsResult = fsMarkers[1].SpeakerName

\* C9 as stated.  The result is "Unknown" if and only if no marker contains the
\* probe time; when some marker contains it, the result is the speaker of a
\* marker that contains it.
C9_UnknownIff ==
    fsPc = "done" =>
        /\ fsResult = "Unknown" <=> ContainingIndexes = {}
        /\ ContainingIndexes # {} =>
               \E i \in ContainingIndexes : fsResult = fsMarkers[i].SpeakerName

\* C9 amended.  When no marker contains the probe time (the list may be empty)
\* the result is "Unknown"; when some marker contains it, the result is the
\* speaker of a marker that contains it, so the result is "Unknown" only when no
\* marker contains the probe time or a containing marker is itself named
\* "Unknown".
C9_UnknownFallback ==
    fsPc = "done" =>
        /\ ContainingIndexes = {} => fsResult = "Unknown"
        /\ ContainingIndexes # {} =>
               \E i \in ContainingIndexes : fsResult = fsMarkers[i].SpeakerName
        /\ fsResult = "Unknown" =>
               \/ ContainingIndexes = {}
               \/ \E i \in ContainingIndexes : fsMarkers[i].SpeakerName = "Unknown"

\* the probe falls in the gap between two well-formed markers
C9_Witness ==
    /\ fsPc = "done"
    /\ Len(fsMarkers) = 2
    /\ WellFormed(fsMarkers[1]) /\ WellFormed(fsMarkers[2])
    /\ 2 * timecodeToMs(fsMarkers[1].EndTime).val < fsTimeMs2
    /\ fsTimeMs2 < 2 * timecodeToMs(fsMarkers[2].StartTime).val
    /\ fsMarkers[1].SpeakerName # "Unknown" /\ fsMarkers[2].SpeakerName # "Unknown"
    /\ fsResult = "Unknown"

----------------------------------------------------------------------------
(* Claims about the timecode conversions, checked under SpecTimecode *)

\* C10 (inverse).  For every timecode with minutes and seconds in 0..59 and
\* frames in 0..29, msToTimecode(timecodeToMs(tc)) is tc again.
C10_EncodeInvertsConvert ==
    (tcPc = "done" /\ tcFields[2] <= 59 /\ tcFields[3] <= 59 /\ tcFields[4] <= 29)
    => tcOut = tcIn

\* C12 (conversion formula).  For a timecode of four non-negative integers
\* hours, minutes, seconds, frames, timecodeToMs is hours*3600000 +
\* minutes*60000 + seconds*1000 + floor(frames*1000/30), whatever the size of the
\* components: 30 frames convert by the same formula and add 1000 ms.
C12_ConversionFormula ==
    tcPc \in {"ms", "done"} =>
        tcMs = JsNum((tcFields[1] * 3600000) + (tcFields[2] * 60000) + (tcFields[3] * 1000)
                     + ((tcFields[4] * 1000) \div 30))

\* a cell with 30 frames has converted: 1000 ms more than the same cell with 0
C12_Witness ==
    /\ tcPc = "ms"
    /\ tcFields = <<1, 2, 3, 30>>
    /\ tcMs = JsNum(3600000 + 120000 + 3000 + 1000)

----------------------------------------------------------------------------
(* Claims about the reverse conversions, checked under SpecEncode *)

\* the sub-second part of ms is where a frame starts: floor(f*1000/30), f in 0..29
OnFrameBoundary(ms) == \E f \in 0..29 : ms % 1000 = (f * 1000) \div 30

\* C11 (round trip).  For a millisecond value m on a frame boundary,
\* timecodeToMs(msToTimecode(m)) is at most m and at least m - 33.
C11_RoundTripWithinFrame ==
    (encPc = "done" /\ OnFrameBoundary(encMs))
    => /\ ~encBack.nan
       /\ encBack.val <= encMs
       /\ encMs - encBack.val <= 33

\* the last frame of a second in the second hour comes back 33 ms lower
C11_Witness ==
    /\ encPc = "done"
    /\ encMs = 3600000 + 966
    /\ OnFrameBoundary(encMs)
    /\ encBack = JsNum(3600000 + 933)

\* the four numbers written in a timecode
FieldsOf(timecode) ==
    LET parts == Split(timecode, ";")
    IN  [i \in 1..4 |-> Component(parts, i)]

\* (hours, minutes, seconds, frames) of a is lexicographically at most that of b
LexLeq(a, b) ==
    \/ \A i \in 1..4 : a[i].val = b[i].val
    \/ \E i \in 1..4 : /\ a[i].val < b[i].val
                       /\ \A j \in 1..(i - 1) : a[j].val = b[j].val

\* C20 (ranges and order).  msToTimecode of a non-negative integer has minutes and
\* seconds in 0..59 and frames in 0..29, and msToTimecode of a later value is
\* lexicographically no smaller.
C20_RangesAndMonotone ==
    encPc \in {"timecode", "done"} =>
        LET a == FieldsOf(encTimecode)
            b == FieldsOf(encLater)
        IN  /\ Len(Split(encTimecode, ";")) = 4
            /\ \A i \in 1..4 : ~a[i].nan /\ ~b[i].nan
            /\ a[1].val >= 0
            /\ a[2].val \in 0..59 /\ a[3].val \in 0..59 /\ a[4].val \in 0..29
            /\ b[2].val \in 0..59 /\ b[3].val \in 0..59 /\ b[4].val \in 0..29
            /\ LexLeq(a, b)

\* the last millisecond of the first hour, and the millisecond after it
C20_Witness ==
    /\ encPc = "timecode"
    /\ encMs = 3599999
    /\ encDelta = 1
    /\ encTimecode = Timecode(";", 0, 59, 59, 29)
    /\ encLater = Timecode(";", 1, 0, 0, 0)

----------------------------------------------------------------------------
(* Further claims about the request, checked under Spec *)

\* the speaker of the first listed marker whose interval contains the doubled
\* time, "Unknown" when there is none
SpeakerAt(timeMs2, markers) ==
    LET containing == {i \in 1..Len(markers) : Contains(timeMs2, markers[i])}
    IN  IF containing = {} THEN "Unknown"
        ELSE markers[CHOOSE i \in containing : \A j \in containing : i <= j].SpeakerName

\* twice the midpoint of a segment: start + end
DoubledMidpoint(row) == row.start + row.end

\* the lines of an output: the tokens between line ends (the part after the last
\* line end is empty)
Lines(out) == Split(out, "\n")

\* C13 (delimited table).  The csv is the header row followed by one row per
\* parsed segment, in input order, same-speaker rows not merged: row i holds the
\* speaker resolved for segment i, msToTimecode of its start and of its end, and
\* its text, every cell quoted.
C13_OneRowPerSegment ==
    (merged.called /\ ~merged.threw)
    => LET lines == Lines(merged.csv)
           rows == whisperFile.rows
       IN  /\ Len(lines) = Len(rows) + 2
           /\ lines[Len(lines)] = <<>>
           /\ lines[1] = <<"\"", "speaker", "\"", ",", "\"", "startTime", "\"", ",",
                           "\"", "endTime", "\"", ",", "\"", "text", "\"">>
           /\ \A i \in 1..Len(rows) :
                  lines[i + 1] =
                      <<"\"", SpeakerAt(DoubledMidpoint(rows[i]), premiereFile.rows), "\"", ",", "\"">>
                      \o msToTimecode(rows[i].start) \o <<"\"", ",", "\"">>
                      \o msToTimecode(rows[i].end) \o <<"\"", ",", "\"", Trim(rows[i].text), "\"">>

\* two segments of the same speaker have been written as two rows
C13_Witness ==
    /\ pc = "done"
    /\ merged.called /\ ~merged.threw
    /\ Len(whisperFile.rows) = 2
    /\ whisperFile.rows[2].text = " hello "
    /\ merged.enhancedSegments[2].text = "hello"
    /\ merged.enhancedSegments[1].speaker = "Alice"
    /\ merged.enhancedSegments[2].speaker = "Alice"
    /\ Len(Lines(merged.csv)) = 4

\* the file was uploaded and its text is blank
Blank(file) == file.present /\ ~file.header /\ file.rows = <<>> /\ file.parseError = <<>>

\* C14 (blank input).  When both files are uploaded and either text is blank, the
\* action answers 'Files appear to be empty' and mergeTranscripts is never
\* called; mergeTranscripts is called only with two texts that are not blank.
C14_BlankRejectedBeforeParse ==
    /\ (whisperFile.present /\ premiereFile.present
        /\ (Blank(whisperFile) \/ Blank(premiereFile)))
       => /\ ~merged.called
          /\ pc = "done" =>
                 /\ "error" \in DOMAIN response
                 /\ response.error = "Files appear to be empty"
    /\ merged.called =>
           /\ whisperFile.present /\ ~Blank(whisperFile)
           /\ premiereFile.present /\ ~Blank(premiereFile)

\* a blank speech-source text next to a marker file with rows has been rejected
C14_Witness ==
    /\ pc = "done"
    /\ Blank(whisperFile)
    /\ Len(premiereFile.rows) = 2
    /\ ~merged.called
    /\ response.error = "Files appear to be empty"

\* C15 (no partial results).  A call of mergeTranscripts has returned all three
\* outputs or has thrown and returned none; a response is a success that carries
\* csvData, markdownWithTimestamps and markdownClean as returned, or an error
\* that carries none of them.
C15_AllOrNothing ==
    /\ (merged.called /\ merged.threw)
       => /\ merged.csv = <<>>
          /\ merged.markdownWithTimestamps = <<>>
          /\ merged.markdownClean = <<>>
    /\ (merged.called /\ ~merged.threw)
       => /\ merged.csv # <<>>
          /\ merged.markdownWithTimestamps = generateMarkdown(merged.enhancedSegments, TRUE)
          /\ merged.markdownClean = generateMarkdown(merged.enhancedSegments, FALSE)
    /\ pc = "done" =>
           \/ /\ DOMAIN response = {"success", "csvData", "markdownWithTimestamps",
                                    "markdownClean", "filename"}
              /\ merged.called /\ ~merged.threw
              /\ response.csvData = merged.csv
              /\ response.markdownWithTimestamps = merged.markdownWithTimestamps
              /\ response.markdownClean = merged.markdownClean
           \/ /\ "error" \in DOMAIN response
              /\ DOMAIN response \subseteq {"error", "details"}

\* a success response carries the three outputs of a merge of two segments
C15_Witness ==
    /\ pc = "done"
    /\ "success" \in DOMAIN response
    /\ Len(whisperFile.rows) = 2
    /\ response.csvData = merged.csv
    /\ response.markdownClean = merged.markdownClean
    /\ response.markdownClean # <<>>

\* C16 (thrown errors).  When mergeTranscripts throws, the action ends at once
\* with error 'Error processing files.', and details chosen by the message: the
\* quote details when it contains INVALID_OPENING_QUOTE, else the column details
\* when it contains columns, else the generic details.
C16_CatchClassifies ==
    (merged.called /\ merged.threw)
    => /\ pc = "done"
       /\ DOMAIN response = {"error", "details"}
       /\ response.error = "Error processing files."
       /\ \/ /\ \E i \in 1..Len(merged.message) : merged.message[i] = "INVALID_OPENING_QUOTE"
             /\ response.details = "One of your CSV files has invalid quote formatting. Please check for mismatched quotes or try re-exporting the file."
          \/ /\ \A i \in 1..Len(merged.message) : merged.message[i] # "INVALID_OPENING_QUOTE"
             /\ \E i \in 1..Len(merged.message) : merged.message[i] = "columns"
             /\ response.details = "The CSV files appear to have an incorrect column structure. Please ensure they match the expected format."
          \/ /\ \A i \in 1..Len(merged.message) :
                    merged.message[i] \notin {"INVALID_OPENING_QUOTE", "columns"}
             /\ response.details = "Please ensure they are valid CSV files."

\* a message with both substrings has been given the quote details
C16_Witness ==
    /\ pc = "done"
    /\ merged.threw
    /\ merged.message = <<"INVALID_OPENING_QUOTE", "columns">>
    /\ response.error = "Error processing files."
    /\ response.details = "One of your CSV files has invalid quote formatting. Please check for mismatched quotes or try re-exporting the file."

\* C18 (midpoint attribution).  The speaker of every aligned segment is the one
\* found at start + (end - start)/2: a segment that starts in one marker and has
\* its midpoint only in another gets the other's speaker, and one whose midpoint
\* is in no marker is "Unknown" wherever its start and end lie.
C18_MidpointAttribution ==
    (merged.called /\ ~merged.threw)
    => /\ Len(merged.enhancedSegments) = Len(whisperFile.rows)
       /\ \A i \in 1..Len(whisperFile.rows) :
              merged.enhancedSegments[i].speaker =
                  SpeakerAt(DoubledMidpoint(whisperFile.rows[i]), premiereFile.rows)

\* the first segment starts in Alice's marker, its midpoint lies only in Bob's,
\* and it is Bob's
C18_Witness ==
    /\ pc = "done"
    /\ merged.called /\ ~merged.threw
    /\ Len(whisperFile.rows) >= 1 /\ Len(premiereFile.rows) = 2
    /\ premiereFile.rows[1].SpeakerName = "Alice"
    /\ premiereFile.rows[2].SpeakerName = "Bob"
    /\ Contains(2 * whisperFile.rows[1].start, premiereFile.rows[1])
    /\ ~Contains(DoubledMidpoint(whisperFile.rows[1]), premiereFile.rows[1])
    /\ Contains(DoubledMidpoint(whisperFile.rows[1]), premiereFile.rows[2])
    /\ merged.enhancedSegments[1].speaker = "Bob"

----------------------------------------------------------------------------
(* A further claim about generateMarkdown, checked under SpecMarkdown *)

\* the segment lines of a rendered markdown: what is left without the heading
\* lines and the blank lines
RECURSIVE SegmentLinesFrom(_, _, _)
SegmentLinesFrom(md, headings, i) ==
    IF i > Len(md) THEN <<>>
    ELSE IF i \in headings THEN SegmentLinesFrom(md, headings, i + 4)
    ELSE IF md[i] = "\n" /\ (i = 1 \/ md[i - 1] = "\n")
    THEN SegmentLinesFrom(md, headings, i + 1)
    ELSE <<md[i]>> \o SegmentLinesFrom(md, headings, i + 1)

SegmentLines(md) == SegmentLinesFrom(md, HeadingStarts(md), 1)

\* the lines the input segments render to, in input order
RECURSIVE InputLines(_, _)
InputLines(segs, withTimestamps) ==
    IF segs = <<>> THEN <<>>
    ELSE RenderLine(Collected(Head(segs)), withTimestamps)
         \o InputLines(Tail(segs), withTimestamps)

\* C19 (conservation).  The rendered markdown holds exactly one segment line per
\* input segment, in input order, and every block has at least one segment line
\* under its heading.
C19_Conservation ==
    mdPc = "done" =>
        /\ SegmentLines(markdown) = InputLines(segments, includeTimestamps)
        /\ \A i \in HeadingStarts(markdown) : i + 4 <= Len(markdown) /\ markdown[i + 4] # "\n"

\* three segments, each of another speaker than the one before, are all rendered
C19_Witness ==
    /\ mdPc = "done"
    /\ Len(segments) = 3
    /\ segments[1].speaker # segments[2].speaker
    /\ segments[2].speaker # segments[3].speaker
    /\ includeTimestamps
    /\ SegmentLines(markdown) = InputLines(segments, TRUE)

====
